---- MODULE Spec2Model ----
(***************************************************************************)
(* script/simple-server.py: a TCPServer on port 3000 whose handler is      *)
(* SimpleHTTPRequestHandler with do_GET overridden to log the request      *)
(* headers before delegating to the inherited do_GET.                      *)
(*                                                                         *)
(* The script is Python 2 (SimpleHTTPServer, SocketServer).  The library   *)
(* calls it makes are modelled by what CPython 2.7's SocketServer,         *)
(* BaseHTTPServer, SimpleHTTPServer, posixpath, urllib and urlparse do on  *)
(* POSIX.                                                                  *)
(*                                                                         *)
(* Left out: HTTP/0.9 request lines, symbolic links on disk, signals.     *)
(*                                                                         *)
(* A URL or a request path is a sequence of tokens; the string it stands   *)
(* for is the concatenation of its tokens.  "/", "?" and "#" only occur    *)
(* as tokens of their own, so splitting on them is splitting the sequence. *)
(* A filesystem path is a sequence of component names plus a flag for a    *)
(* trailing slash.                                                         *)
(***************************************************************************)
EXTENDS Naturals, Sequences, FiniteSets, TLC

VARIABLES loop, listening, backlog, nextConn, conn, trace, fs, probe

vars == <<loop, listening, backlog, nextConn, conn, trace, fs, probe>>

(* ---------------------------------------------------------------- bounds *)

\* Connections the clients open in one run.
MaxConns == 3

\* Path segments of a requested URL.
MaxSegs == 2

(* ------------------------------------------------------------- constants *)

PORT == 3000

(* ------------------------------------------------------------ filesystem *)

\* The process's working directory, os.getcwd(): /www.
Cwd == <<"www">>

\* What is on disk when the server starts.  /f lies outside the working
\* directory; p is a file the process may not read; d/e is a directory the
\* process may not list; e holds an index.html.
InitialFs ==
  [p \in { <<>>, <<"f">>, <<"www">>,
           <<"www", "f">>, <<"www", "p">>,
           <<"www", "d">>, <<"www", "d", "f">>, <<"www", "d", "e">>,
           <<"www", "e">>, <<"www", "e", "index.html">> } |->
     CASE p = <<"f">>                       -> [kind |-> "file", data |-> "SECRET", mode |-> TRUE]
       [] p = <<"www", "f">>                -> [kind |-> "file", data |-> "PUBLIC", mode |-> TRUE]
       [] p = <<"www", "p">>                -> [kind |-> "file", data |-> "PRIVATE", mode |-> FALSE]
       [] p = <<"www", "d", "f">>           -> [kind |-> "file", data |-> "NESTED", mode |-> TRUE]
       [] p = <<"www", "e", "index.html">>  -> [kind |-> "file", data |-> "INDEX", mode |-> TRUE]
       [] p = <<"www", "d", "e">>           -> [kind |-> "dir", data |-> "", mode |-> FALSE]
       [] OTHER                             -> [kind |-> "dir", data |-> "", mode |-> TRUE]]

Front(s) == SubSeq(s, 1, Len(s) - 1)

Last(s) == s[Len(s)]

\* The kernel's path resolution of the components comps from the node at:
\* "." stays, ".." goes to the parent (the root is its own parent), a name
\* descends into a searchable directory.  ok is FALSE when a step fails.
RECURSIVE Walk(_, _, _)
Walk(disk, at, comps) ==
  IF comps = <<>> THEN [ok |-> TRUE, at |-> at]
  ELSE LET c == Head(comps)
       IN IF c = "." THEN Walk(disk, at, Tail(comps))
          ELSE IF c = ".."
               THEN Walk(disk, IF at = <<>> THEN at ELSE Front(at), Tail(comps))
          ELSE IF disk[at].kind = "dir" /\ disk[at].mode
                  /\ Append(at, c) \in DOMAIN disk
               THEN Walk(disk, Append(at, c), Tail(comps))
          ELSE [ok |-> FALSE, at |-> <<>>]

NoNode == [ok |-> FALSE, at |-> <<>>, kind |-> "", data |-> "", mode |-> FALSE]

\* os.stat(path): the node at path, NoNode when there is none.  A trailing
\* slash demands a directory.
Stat(disk, path) ==
  LET w == Walk(disk, <<>>, path.comps)
  IN IF ~w.ok THEN NoNode
     ELSE IF path.slash /\ disk[w.at].kind # "dir" THEN NoNode
     ELSE [ok |-> TRUE, at |-> w.at, kind |-> disk[w.at].kind,
           data |-> disk[w.at].data, mode |-> disk[w.at].mode]

IsDir(disk, path) == Stat(disk, path).ok /\ Stat(disk, path).kind = "dir"

Exists(disk, path) == Stat(disk, path).ok

\* open(path, 'rb') succeeds on a readable regular file.
CanOpen(disk, path) ==
  /\ Stat(disk, path).ok
  /\ Stat(disk, path).kind = "file"
  /\ Stat(disk, path).mode

\* os.listdir(path) of a directory at node `at`.
Children(disk, at) ==
  { Last(q) : q \in { r \in DOMAIN disk : Len(r) = Len(at) + 1 /\ Front(r) = at } }

\* True of the nodes at or under the working directory.
UnderCwd(at) == Len(at) >= Len(Cwd) /\ SubSeq(at, 1, Len(Cwd)) = Cwd

(* ----------------------------------------------------------- URL strings *)

\* s.split(sep, 1)[0]
RECURSIVE Before(_, _)
Before(s, sep) ==
  IF s = <<>> \/ Head(s) = sep THEN <<>>
  ELSE <<Head(s)>> \o Before(Tail(s), sep)

\* What follows the first token of seps in s, that token included.
RECURSIVE From(_, _)
From(s, seps) ==
  IF s = <<>> \/ Head(s) \in seps THEN s ELSE From(Tail(s), seps)

\* s.split('/'): the words between the slashes, each word the
\* concatenation of its tokens.
RECURSIVE SplitSlash(_, _)
SplitSlash(s, word) ==
  IF s = <<>> THEN <<word>>
  ELSE IF Head(s) = "/" THEN <<word>> \o SplitSlash(Tail(s), "")
  ELSE SplitSlash(Tail(s), word \o Head(s))

\* '/'.join(words)
RECURSIVE JoinSlash(_)
JoinSlash(words) ==
  IF words = <<>> THEN <<>>
  ELSE IF Len(words) = 1 THEN <<words[1]>>
  ELSE <<words[1], "/">> \o JoinSlash(Tail(words))

\* urllib.unquote on one token: %2e%2e is "..", %2f is "/".
UnquoteToken(t) ==
  IF t = "%2e%2e" THEN ".." ELSE IF t = "%2f" THEN "/" ELSE t

Unquote(s) == [i \in 1..Len(s) |-> UnquoteToken(s[i])]

\* The loop of posixpath.normpath over the components.
RECURSIVE NormComps(_, _, _)
NormComps(comps, initial, new) ==
  IF comps = <<>> THEN new
  ELSE LET comp == Head(comps)
       IN IF comp \in {"", "."} THEN NormComps(Tail(comps), initial, new)
          ELSE IF \/ comp # ".."
                  \/ (initial = 0 /\ new = <<>>)
                  \/ (new # <<>> /\ Last(new) = "..")
               THEN NormComps(Tail(comps), initial, Append(new, comp))
          ELSE IF new # <<>> THEN NormComps(Tail(comps), initial, Front(new))
          ELSE NormComps(Tail(comps), initial, new)

\* posixpath.normpath(path)
NormPath(s) ==
  IF s = <<>> THEN <<".">>
  ELSE LET starts(n) == Len(s) >= n /\ \A i \in 1..n : s[i] = "/"
           initial == IF starts(2) /\ ~starts(3) THEN 2
                      ELSE IF starts(1) THEN 1 ELSE 0
           joined == JoinSlash(NormComps(SplitSlash(s, ""), initial, <<>>))
           path == [i \in 1..initial |-> "/"] \o joined
       IN IF path = <<>> THEN <<".">> ELSE path

\* urlparse.urlsplit(url).path for a URL without a scheme: a leading "//"
\* opens a network location that runs to the next "/", "?" or "#".
UrlSplitPath(url) ==
  LET rest == IF Len(url) >= 2 /\ url[1] = "/" /\ url[2] = "/"
              THEN From(SubSeq(url, 3, Len(url)), {"/", "?", "#"})
              ELSE url
  IN Before(Before(rest, "#"), "?")

EndsWithSlash(s) == s # <<>> /\ Last(s) = "/"

\* The words translate_path skips: os.curdir, os.pardir (os.path.dirname of
\* a word is empty: a word holds no slash).
NotSimpleName(word) == word \in {".", ".."}

\* translate_path were it to keep the "." and ".." words.
TranslatePathLax(path) ==
  LET p == Before(Before(path, "?"), "#")
      words == SelectSeq(SplitSlash(NormPath(Unquote(p)), ""), LAMBDA w : w # "")
  IN [comps |-> Cwd \o words, slash |-> EndsWithSlash(p)]

\* SimpleHTTPRequestHandler.translate_path(path)
TranslatePath(path) ==
  LET p == Before(Before(path, "?"), "#")
      trailing_slash == EndsWithSlash(p)
      words == SelectSeq(SplitSlash(NormPath(Unquote(p)), ""), LAMBDA w : w # "")
      kept == SelectSeq(words, LAMBDA w : ~NotSimpleName(w))
  IN [comps |-> Cwd \o kept, slash |-> trailing_slash]

(* ------------------------------------------------------------- responses *)

NoResponse ==
  [status |-> 0, kind |-> "none", data |-> "", entries |-> {}, source |-> <<>>]

\* send_error(code): an error page.
SendError(code) ==
  [status |-> code, kind |-> "error", data |-> "", entries |-> {}, source |-> <<>>]

\* The name list_directory shows for a child: a directory gets a slash.
DisplayName(disk, at, name) ==
  IF disk[Append(at, name)].kind = "dir" THEN name \o "/" ELSE name

\* list_directory were it to leave the subdirectories out.
ListDirectoryFilesOnly(disk, path) ==
  LET node == Stat(disk, path)
  IN IF ~node.mode THEN SendError(404)
     ELSE [status |-> 200, kind |-> "listing", data |-> "",
           entries |-> { n \in Children(disk, node.at) : disk[Append(node.at, n)].kind = "file" },
           source |-> node.at]

\* SimpleHTTPRequestHandler.list_directory(path): 404 when os.listdir
\* fails, else 200 and one entry per name os.listdir returns.
ListDirectory(disk, path) ==
  LET node == Stat(disk, path)
  IN IF ~node.mode THEN SendError(404)
     ELSE [status |-> 200, kind |-> "listing", data |-> "",
           entries |-> { DisplayName(disk, node.at, n) : n \in Children(disk, node.at) },
           source |-> node.at]

\* The file served were copyfile to copy nothing.
ServeFileTruncated(disk, path) ==
  IF ~CanOpen(disk, path) THEN SendError(404)
  ELSE [status |-> 200, kind |-> "file", data |-> "",
        entries |-> {}, source |-> Stat(disk, path).at]

\* The file served were a failed open answered 403.
ServeFileForbidden(disk, path) ==
  IF ~CanOpen(disk, path) THEN SendError(403)
  ELSE [status |-> 200, kind |-> "file", data |-> Stat(disk, path).data,
        entries |-> {}, source |-> Stat(disk, path).at]

\* The tail of send_head and copyfile: 404 when open(path, 'rb') fails, else
\* 200 and the bytes of the file.
ServeFile(disk, path) ==
  IF ~CanOpen(disk, path) THEN SendError(404)
  ELSE [status |-> 200, kind |-> "file", data |-> Stat(disk, path).data,
        entries |-> {}, source |-> Stat(disk, path).at]

IndexOf(path, name) == [comps |-> Append(path.comps, name), slash |-> FALSE]

\* SimpleHTTPRequestHandler.send_head() followed by copyfile: the response
\* to GET url.
SendHead(disk, url) ==
  LET path == TranslatePath(url)
  IN IF IsDir(disk, path)
     THEN IF ~EndsWithSlash(UrlSplitPath(url))
          THEN [status |-> 301, kind |-> "redirect", data |-> "",
                entries |-> {}, source |-> <<>>]
          ELSE IF Exists(disk, IndexOf(path, "index.html"))
               THEN ServeFile(disk, IndexOf(path, "index.html"))
          ELSE IF Exists(disk, IndexOf(path, "index.htm"))
               THEN ServeFile(disk, IndexOf(path, "index.htm"))
          ELSE ListDirectory(disk, path)
     ELSE ServeFile(disk, path)

\* do_HEAD: send_head() without the body.
HeadOnly(resp) ==
  [status |-> resp.status, kind |-> IF resp.kind = "redirect" THEN "redirect" ELSE "head",
   data |-> "", entries |-> {}, source |-> resp.source]

(* -------------------------------------------------------------- requests *)

NoRequest == [command |-> "", path |-> <<>>, version |-> "", headers |-> <<>>]

Segments == {"..", "f", "p", "d", "e", "index.html"}

RECURSIVE SegLists(_)
SegLists(n) ==
  IF n = 0 THEN {<<>>}
  ELSE SegLists(n - 1) \cup
       { Append(l, x) : l \in { m \in SegLists(n - 1) : Len(m) = n - 1 }, x \in Segments }

\* Paths with a quoted "..", with a name that is not on disk, with a
\* fragment, with a network location.
OtherPaths ==
  { <<"/", "%2e%2e", "/", "f">>, <<"%2e%2e", "/", "f">>, <<"/", "d", "/", "%2e%2e", "/", "%2e%2e", "/", "f">>,
    <<"/", "log">>, <<"/", "d", "/", "#", "f">>, <<"/", "/", "d", "/">>, <<"/", "/", "d">> }

\* The request paths the clients send: an optional leading slash, up to
\* MaxSegs segments, an optional trailing slash, an optional query; and
\* OtherPaths.
Paths ==
  OtherPaths \cup
  ({ lead \o JoinSlash(segs) \o trail \o query :
      lead \in {<<>>, <<"/">>}, segs \in SegLists(MaxSegs),
      trail \in {<<>>, <<"/">>}, query \in {<<>>, <<"?", "f">>} } \ {<<>>})

HeaderBlocks == { <<>>, <<"Host: a\r\n">>, <<"Host: a\r\n", "Accept: */*\r\n">> }

\* What a client may send on a connection: a GET of any path, and any
\* command, version and header block on two paths.
Requests ==
  [command : {"GET"}, path : Paths, version : {"HTTP/1.0"}, headers : {<<"Host: a\r\n">>}]
  \cup [command : {"GET", "HEAD", "POST", "get"}, path : {<<"/", "d", "/">>, <<"/", "f">>},
        version : {"HTTP/1.0", "HTTP/1.1", "HTTP/2.0", "FOO"}, headers : HeaderBlocks]

\* str(self.headers): the raw header lines, concatenated.
RECURSIVE HeaderText(_)
HeaderText(headers) ==
  IF headers = <<>> THEN "" ELSE Head(headers) \o HeaderText(Tail(headers))

\* The record logging.error(msg) writes through the root logger's default
\* handler (basicConfig: a StreamHandler on stderr, "%(levelname)s:%(name)s:%(message)s").
LogRecord(msg) == "ERROR:root:" \o msg

\* parse_request() on a three-word request line: 400 for a version that
\* is not HTTP/<major>.<minor>, 505 from 2.0 on, 0 for a request it accepts.
ParseError(version) ==
  IF version \in {"HTTP/1.0", "HTTP/1.1"} THEN 0
  ELSE IF version = "HTTP/2.0" THEN 505
  ELSE 400

\* The methods were every command handed to do_GET.
HasMethodAny(command) == TRUE

\* The do_<command> methods GetHandler has: do_GET (overridden) and do_HEAD
\* (inherited).
HasMethod(command) == command \in {"GET", "HEAD"}

(* ----------------------------------------------------------------- state *)

\* loop: where the main thread is: "start" (line 15 not yet run), "bound"
\*   (httpd constructed), "select" (serve_forever waiting for a connection),
\*   "process" (inside process_request), "exited" (the process has ended).
\* listening: the listening socket.
\* backlog: the connections the kernel has queued, oldest first.
\* nextConn: the number the next arriving connection gets.
\* conn: per connection, where its handler is, the request it read, the
\*   response it wrote and the log records written for it; of a closed
\*   connection, only how its handler ended.
\* trace: what was written to the log stream and to the sockets for the
\*   connections not yet closed, in order.
\* fs: the disk.
\* probe: one request remembered with its response, for comparison with a
\*   later repeat.

Conns == 1..MaxConns

\* err is the error the bind ended with, "" for none.
Unbound(err) == [bound |-> FALSE, host |-> "", port |-> 0, err |-> err]

Bound(host, port) == [bound |-> TRUE, host |-> host, port |-> port, err |-> ""]

FreshConn ==
  [st |-> "unborn", req |-> NoRequest, resp |-> NoResponse, logged |-> <<>>, ended |-> ""]

ClosedConn(how) ==
  [st |-> "closed", req |-> NoRequest, resp |-> NoResponse, logged |-> <<>>, ended |-> how]

NoProbe == [set |-> FALSE, c |-> 0, req |-> NoRequest, resp |-> NoResponse]

Handling == {"handle", "do_GET_11", "do_GET_12", "finish"}

Active == { c \in Conns : conn[c].st \in Handling }

\* The requests remembered for a later comparison.
ProbeRequests ==
  [command : {"GET"},
   path : { <<"/", "f">>, <<"/", "d", "/">>, <<"/", "e", "/">>, <<"/", "log">>,
            <<"..", "/", "f">> },
   version : {"HTTP/1.0"}, headers : {<<"Host: a\r\n">>}]

Init ==
  /\ loop = "start"
  /\ listening = Unbound("")
  /\ backlog = <<>>
  /\ nextConn = 1
  /\ conn = [c \in Conns |-> FreshConn]
  /\ trace = <<>>
  /\ fs = InitialFs
  /\ probe = NoProbe

(* --------------------------------------------------------------- actions *)

\* Line 15 were a failed bind to fall back to the next port.
BindWithFallback ==
  /\ loop = "start"
  /\ \E err \in {"", "EADDRINUSE", "EACCES"} :
       /\ listening' = Bound("", IF err = "" THEN PORT ELSE PORT + 1)
       /\ loop' = "bound"
  /\ UNCHANGED <<backlog, nextConn, conn, trace, fs, probe>>

\* Line 15, SocketServer.TCPServer(("", PORT), Handler): server_bind and
\* server_activate.  A socket.error of bind is caught nowhere: the process
\* ends with a traceback.
Bind ==
  /\ loop = "start"
  /\ \E err \in {"", "EADDRINUSE", "EACCES"} :
       IF err = ""
       THEN /\ listening' = Bound("", PORT)
            /\ loop' = "bound"
       ELSE /\ listening' = Unbound(err)
            /\ loop' = "exited"
  /\ UNCHANGED <<backlog, nextConn, conn, trace, fs, probe>>

\* Line 17, httpd.serve_forever(): enter the loop.
ServeForever ==
  /\ loop = "bound"
  /\ loop' = "select"
  /\ UNCHANGED <<listening, backlog, nextConn, conn, trace, fs, probe>>

\* A client connects: the kernel queues the connection on the listening
\* socket.
Connect ==
  /\ listening.bound
  /\ loop # "exited"
  /\ nextConn <= MaxConns
  /\ backlog' = Append(backlog, nextConn)
  /\ conn' = [conn EXCEPT ![nextConn].st = "queued"]
  /\ nextConn' = nextConn + 1
  /\ UNCHANGED <<loop, listening, trace, fs, probe>>

\* process_request were it to start the handler in a thread of its own
\* (ThreadingMixIn) and return.
GetRequestThreaded ==
  /\ loop = "select"
  /\ backlog # <<>>
  /\ conn' = [conn EXCEPT ![Head(backlog)].st = "handle"]
  /\ backlog' = Tail(backlog)
  /\ loop' = "select"
  /\ UNCHANGED <<listening, nextConn, trace, fs, probe>>

\* serve_forever's _handle_request_noblock: get_request() accepts the
\* oldest queued connection, and process_request() runs its handler in
\* this thread.
GetRequest ==
  /\ loop = "select"
  /\ backlog # <<>>
  /\ conn' = [conn EXCEPT ![Head(backlog)].st = "handle"]
  /\ backlog' = Tail(backlog)
  /\ loop' = "process"
  /\ UNCHANGED <<listening, nextConn, trace, fs, probe>>

Wrote(c, ev) == Append(trace, [c |-> c, ev |-> ev])

\* The trace once connection c is closed.
Closed(c) == SelectSeq(trace, LAMBDA e : e.c # c)

\* handle_one_request up to the call of the do_<command> method: a bad
\* request line is answered 400, a command without a method 501; do_HEAD
\* answers here, do_GET is entered.
ParseRequest(c) ==
  /\ conn[c].st = "handle"
  /\ \E req \in Requests :
       IF ParseError(req.version) # 0
       THEN /\ conn' = [conn EXCEPT ![c].st = "finish", ![c].req = req,
                                    ![c].resp = SendError(ParseError(req.version))]
            /\ trace' = Wrote(c, "response")
       ELSE IF ~HasMethod(req.command)
       THEN /\ conn' = [conn EXCEPT ![c].st = "finish", ![c].req = req,
                                    ![c].resp = SendError(501)]
            /\ trace' = Wrote(c, "response")
       ELSE IF req.command = "HEAD"
       THEN /\ conn' = [conn EXCEPT ![c].st = "finish", ![c].req = req,
                                    ![c].resp = HeadOnly(SendHead(fs, req.path))]
            /\ trace' = Wrote(c, "response")
       ELSE /\ conn' = [conn EXCEPT ![c].st = "do_GET_11", ![c].req = req]
            /\ trace' = trace
  /\ UNCHANGED <<loop, listening, backlog, nextConn, fs, probe>>

\* Line 11 were it to log nothing.
DoGetLogSkipped(c) ==
  /\ conn[c].st = "do_GET_11"
  /\ conn' = [conn EXCEPT ![c].st = "do_GET_12"]
  /\ UNCHANGED <<loop, listening, backlog, nextConn, trace, fs, probe>>

LogFile == Cwd \o <<"log">>

\* Line 11 were the root logger to append to a file in the working
\* directory.
DoGetLogToFile(c) ==
  /\ conn[c].st = "do_GET_11"
  /\ conn' = [conn EXCEPT ![c].st = "do_GET_12",
                          ![c].logged = Append(@, LogRecord(HeaderText(conn[c].req.headers)))]
  /\ trace' = Wrote(c, "log")
  /\ fs' = [q \in DOMAIN fs \cup {LogFile} |->
             IF q = LogFile
             THEN [kind |-> "file", mode |-> TRUE,
                   data |-> (IF LogFile \in DOMAIN fs THEN fs[LogFile].data ELSE "")
                            \o LogRecord(HeaderText(conn[c].req.headers))]
             ELSE fs[q]]
  /\ UNCHANGED <<loop, listening, backlog, nextConn, probe>>

\* Line 11, logging.error(self.headers).
DoGetLog(c) ==
  /\ conn[c].st = "do_GET_11"
  /\ conn' = [conn EXCEPT ![c].st = "do_GET_12",
                          ![c].logged = Append(@, LogRecord(HeaderText(conn[c].req.headers)))]
  /\ trace' = Wrote(c, "log")
  /\ UNCHANGED <<loop, listening, backlog, nextConn, fs, probe>>

\* Line 12, SimpleHTTPRequestHandler.do_GET(self).
DoGetDelegate(c) ==
  /\ conn[c].st = "do_GET_12"
  /\ conn' = [conn EXCEPT ![c].st = "finish", ![c].resp = SendHead(fs, conn[c].req.path)]
  /\ trace' = Wrote(c, "response")
  /\ UNCHANGED <<loop, listening, backlog, nextConn, fs, probe>>

\* The handler's exception were it to leave serve_forever.
HandlerRaisesUncaught(c) ==
  /\ conn[c].st \in {"handle", "do_GET_12"}
  /\ conn' = [conn EXCEPT ![c] = ClosedConn("raised")]
  /\ trace' = Closed(c)
  /\ loop' = "exited"
  /\ UNCHANGED <<listening, backlog, nextConn, fs, probe>>

\* The handler raises (the client went away while the request is read or
\* the response written): _handle_request_noblock catches it, handle_error
\* prints a traceback, shutdown_request closes the connection.
HandlerRaises(c) ==
  /\ conn[c].st \in {"handle", "do_GET_12"}
  /\ conn' = [conn EXCEPT ![c] = ClosedConn("raised")]
  /\ trace' = Closed(c)
  /\ loop' = "select"
  /\ UNCHANGED <<listening, backlog, nextConn, fs, probe>>

\* The handler returns: shutdown_request closes the connection and the
\* loop waits again.
ShutdownRequest(c) ==
  /\ conn[c].st = "finish"
  /\ conn' = [conn EXCEPT ![c] = ClosedConn("returned")]
  /\ trace' = Closed(c)
  /\ loop' = "select"
  /\ \/ probe' = probe
     \/ /\ ~probe.set
        /\ conn[c].req \in ProbeRequests
        /\ probe' = [set |-> TRUE, c |-> c, req |-> conn[c].req, resp |-> conn[c].resp]
  /\ UNCHANGED <<listening, backlog, nextConn, fs>>

Next ==
  \/ Bind
  \/ ServeForever
  \/ Connect
  \/ GetRequest
  \/ \E c \in Conns : ParseRequest(c)
  \/ \E c \in Conns : DoGetLog(c)
  \/ \E c \in Conns : DoGetDelegate(c)
  \/ \E c \in Conns : HandlerRaises(c)
  \/ \E c \in Conns : ShutdownRequest(c)

Spec == Init /\ [][Next]_vars

(* ---------------------------------------------------------------- claims *)

EventsOf(c) ==
  LET t == SelectSeq(trace, LAMBDA e : e.c = c)
  IN [i \in 1..Len(t) |-> t[i].ev]

\* Connection c holds a GET request that parse_request accepted.
IsGet(c) == conn[c].req.command = "GET" /\ ParseError(conn[c].req.version) = 0

\* The handler of connection c has answered such a request.
FinishedGet(c) == conn[c].st = "finish" /\ IsGet(c)

\* The node the request path of connection c resolves to.
Resolved(c) == Stat(fs, TranslatePath(conn[c].req.path))

\* C1: for every GET request handed to do_GET, exactly one log record is
\* written, it holds the request's header block, and it is written before
\* any part of the response.
C1_LogOnceBeforeResponse ==
  \A c \in Conns :
    IsGet(c) =>
      /\ conn[c].st = "do_GET_11" => EventsOf(c) = <<>> /\ conn[c].logged = <<>>
      /\ conn[c].st = "do_GET_12" =>
           /\ EventsOf(c) = <<"log">>
           /\ conn[c].logged = <<LogRecord(HeaderText(conn[c].req.headers))>>
      /\ conn[c].st = "finish" =>
           /\ EventsOf(c) = <<"log", "response">>
           /\ conn[c].logged = <<LogRecord(HeaderText(conn[c].req.headers))>>

C1_Witness ==
  \E c \in Conns :
    /\ FinishedGet(c)
    /\ conn[c].resp.status = 404
    /\ EventsOf(c) = <<"log", "response">>
    /\ conn[c].logged = <<"ERROR:root:Host: a\r\n">>

\* C2 as stated: every GET whose path resolves to an existing regular file
\* under the working directory is answered 200 with the file's bytes.
C2_Original ==
  \A c \in Conns :
    (FinishedGet(c) /\ Resolved(c).ok /\ Resolved(c).kind = "file" /\ UnderCwd(Resolved(c).at)) =>
      /\ conn[c].resp.status = 200
      /\ conn[c].resp.kind = "file"
      /\ conn[c].resp.data = Resolved(c).data

\* C2, amended: every GET whose path resolves to an existing regular file
\* under the working directory that the process can open for reading is
\* answered 200 with the file's bytes; a file it cannot open is answered 404.
C2_ReadableFileServed ==
  \A c \in Conns :
    (FinishedGet(c) /\ Resolved(c).ok /\ Resolved(c).kind = "file" /\ UnderCwd(Resolved(c).at)) =>
      IF Resolved(c).mode
      THEN /\ conn[c].resp.status = 200
           /\ conn[c].resp.kind = "file"
           /\ conn[c].resp.data = Resolved(c).data
      ELSE conn[c].resp.status = 404

C2_Witness ==
  \E c \in Conns :
    /\ FinishedGet(c)
    /\ conn[c].req.path = <<"/", "d", "/", "f">>
    /\ conn[c].resp.status = 200
    /\ conn[c].resp.data = "NESTED"

\* C3: at most one connection is handled at any time, connections are
\* handled in arrival order, each fully before the next is accepted, and
\* what is written for one connection is never interleaved with what is
\* written for another.
C3_OneAtATimeInOrder ==
  /\ Cardinality(Active) <= 1
  /\ (loop = "process") = (Active # {})
  /\ \A i \in 1..Len(trace) : trace[i].c \in Active
  /\ \A c \in Active :
       /\ \A d \in Conns : d < c => conn[d].st = "closed"
       /\ \A d \in Conns : d > c => conn[d].st \in {"unborn", "queued"}

C3_Witness ==
  /\ conn[1].st = "closed"
  /\ conn[2].st = "finish"
  /\ conn[3].st = "queued"
  /\ EventsOf(2) = <<"log", "response">>

\* C4: once the socket is bound the process never ends on its own, and
\* when a handler ends, with a response of any status or with an exception,
\* only its connection is closed and the loop waits for the next one.
C4_ServerKeepsServing ==
  [][ /\ listening.bound => loop' # "exited"
      /\ \A c \in Conns :
           (conn[c].st \in Handling /\ conn'[c].st \notin Handling) =>
             /\ conn'[c].st = "closed"
             /\ loop' = "select"
             /\ listening' = listening
             /\ backlog' = backlog
             /\ \A d \in Conns \ {c} : conn'[d] = conn[d] ]_vars

C4_Witness ==
  /\ listening.bound
  /\ loop = "select"
  /\ conn[1].ended = "raised"
  /\ conn[2].ended = "returned"
  /\ conn[3].st = "queued"

\* C5: every GET whose path resolves to no existing file or directory is
\* answered 404.
C5_MissingIs404 ==
  \A c \in Conns :
    (FinishedGet(c) /\ ~Resolved(c).ok) => conn[c].resp.status = 404

C5_Witness ==
  \E c \in Conns :
    /\ FinishedGet(c)
    /\ conn[c].req.path = <<"/", "d", "/", "index.html">>
    /\ ~Resolved(c).ok
    /\ conn[c].resp.status = 404

\* The words of a request path as a client means them: the path without
\* query and fragment, unquoted, split at the slashes.
RawWords(url) ==
  SelectSeq(SplitSlash(Unquote(Before(Before(url, "?"), "#")), ""), LAMBDA w : w # "")

\* The path names something outside the working directory when read from
\* the working directory with ".." meaning the parent.
Escapes(url) ==
  LET w == Walk(fs, Cwd, RawWords(url))
  IN w.ok /\ ~UnderCwd(w.at)

\* C6: a GET whose path holds ".." sequences that lead out of the working
\* directory is never answered with a file or a listing from outside it.
C6_ConfinedToCwd ==
  \A c \in Conns :
    (FinishedGet(c) /\ Escapes(conn[c].req.path)) =>
      (conn[c].resp.kind \in {"file", "listing"} => UnderCwd(conn[c].resp.source))

C6_Witness ==
  \E c \in Conns :
    /\ FinishedGet(c)
    /\ conn[c].req.path = <<"..", "/", "f">>
    /\ Escapes(conn[c].req.path)
    /\ conn[c].resp.status = 200
    /\ conn[c].resp.data = "PUBLIC"

\* The response of connection c is a listing with an entry for every direct
\* child of the directory its path resolves to.
ListsAll(c) ==
  /\ conn[c].resp.status = 200
  /\ conn[c].resp.kind = "listing"
  /\ \A n \in Children(fs, Resolved(c).at) :
       n \in conn[c].resp.entries \/ (n \o "/") \in conn[c].resp.entries

\* C7 as stated: every GET whose path resolves to a directory is answered
\* 200 with a listing that has an entry for every direct child.
C7_Original ==
  \A c \in Conns :
    (FinishedGet(c) /\ Resolved(c).ok /\ Resolved(c).kind = "dir") => ListsAll(c)

HasIndex(c) ==
  \E name \in {"index.html", "index.htm"} :
    Exists(fs, IndexOf(TranslatePath(conn[c].req.path), name))

\* C7, amended: a GET whose path resolves to a directory is answered 301
\* when the URL path does not end in a slash; otherwise with the index file
\* when the directory holds index.html or index.htm; otherwise 404 when the
\* directory cannot be listed; otherwise 200 with a listing that has an
\* entry for every direct child.
C7_DirectoryListed ==
  \A c \in Conns :
    (FinishedGet(c) /\ Resolved(c).ok /\ Resolved(c).kind = "dir") =>
      IF ~EndsWithSlash(UrlSplitPath(conn[c].req.path))
      THEN conn[c].resp.status = 301
      ELSE IF HasIndex(c)
      THEN conn[c].resp.kind \in {"file", "error"}
      ELSE IF ~Resolved(c).mode
      THEN conn[c].resp.status = 404
      ELSE ListsAll(c)

C7_Witness ==
  \E c \in Conns :
    /\ FinishedGet(c)
    /\ conn[c].req.path = <<"/", "d", "/">>
    /\ ListsAll(c)
    /\ conn[c].resp.entries = {"f", "e/"}

\* C8: handling requests changes nothing on disk, and a GET request
\* repeated after other requests is answered with the same status and the
\* same body as the first time.
C8_RepeatSameResponse ==
  /\ fs = InitialFs
  /\ \A c \in Conns :
       (probe.set /\ conn[c].st = "finish" /\ conn[c].req = probe.req) =>
         /\ conn[c].resp.status = probe.resp.status
         /\ conn[c].resp.kind = probe.resp.kind
         /\ conn[c].resp.data = probe.resp.data
         /\ conn[c].resp.entries = probe.resp.entries

C8_Witness ==
  /\ probe.set
  /\ probe.c = 1
  /\ conn[2].ended = "returned"
  /\ conn[3].st = "finish"
  /\ conn[3].req = probe.req
  /\ conn[3].resp.kind = "listing"

\* C9: the socket is bound to all interfaces on port 3000; when the bind
\* fails the process has ended: no socket listens, no connection was
\* queued or accepted, nothing was written, and no step follows.
C9_BindOrExit ==
  /\ listening.bound => listening.host = "" /\ listening.port = 3000
  /\ loop \in {"bound", "select", "process"} => listening.bound
  /\ listening.err # "" =>
       /\ loop = "exited"
       /\ ~listening.bound
       /\ backlog = <<>>
       /\ trace = <<>>
       /\ \A c \in Conns : conn[c].st = "unborn"
       /\ ~ENABLED Next

C9_Witness ==
  /\ loop = "exited"
  /\ listening.err = "EADDRINUSE"

\* C10: a request whose command is not GET writes no log record, and is
\* answered 501 when the handler has no method for the command.
C10_NonGetNotLogged ==
  \A c \in Conns :
    (conn[c].st = "finish" /\ conn[c].req.command # "GET") =>
      /\ conn[c].logged = <<>>
      /\ EventsOf(c) = <<"response">>
      /\ (ParseError(conn[c].req.version) = 0 /\ conn[c].req.command # "HEAD") =>
           conn[c].resp.status = 501
      /\ (ParseError(conn[c].req.version) = 0 /\ conn[c].req.command = "HEAD") =>
           /\ conn[c].resp.status = SendHead(fs, conn[c].req.path).status
           /\ conn[c].resp.kind \in {"head", "redirect"}

C10_Witness ==
  \E c \in Conns :
    /\ conn[c].st = "finish"
    /\ conn[c].req.command = "POST"
    /\ conn[c].resp.status = 501
    /\ conn[c].logged = <<>>

====
